---- MODULE Spec2Model ----
(***************************************************************************)
(* Model of server.py, the Romanian-subtitles Stremio addon: the           *)
(* get_subtitles request handler and the three scrapers it drives.         *)
(*                                                                         *)
(* Python strings (request ids, links, titles, record ids, urls) are       *)
(* sequences of one-character strings, so that split, startswith, strip,   *)
(* the regex searches, the f-string formatting and urljoin are computed    *)
(* on characters.  A fetched document is the sequence of its top-level     *)
(* elements in document order; a div holds at most one nested anchor.      *)
(***************************************************************************)
EXTENDS Integers, Sequences, FiniteSets, TLC

VARIABLES
    pc,             \* position of get_subtitles: "idle", "loop", "sleep", "respond", "done"
    reqId,          \* the {id} path parameter of the request
    imdb_id,        \* parts[0]
    season,         \* int(parts[1]) or None
    episode,        \* int(parts[2]) or None
    status,         \* HTTP status of the finished request (0 while running)
    scraperIdx,     \* position of the for loop in scrapers (1-based)
    all_subtitles,  \* the handler's accumulator
    body,           \* the "subtitles" list of the JSON response
    calls,          \* history: the adapter calls and pauses, in order
    clock,          \* time slept so far, in tenths of a second
    fetched,        \* history: the kind of response each adapter got
    returned,       \* history: the list each adapter's search returned
    raised,         \* history: whether each adapter's search raised
    sAdapter,       \* SpecSearch: the adapter under test
    sImdb,          \* SpecSearch: the imdb id passed to search
    sResp,          \* SpecSearch: the response of session.get
    sOut,           \* SpecSearch: the list search returned
    sRaised,        \* SpecSearch: whether search raised
    sDone           \* SpecSearch: search has run

vars == <<pc, reqId, imdb_id, season, episode, status, scraperIdx, all_subtitles,
          body, calls, clock, fetched, returned, raised,
          sAdapter, sImdb, sResp, sOut, sRaised, sDone>>

reqVars == <<pc, reqId, imdb_id, season, episode, status, scraperIdx, all_subtitles,
             body, calls, clock, fetched, returned, raised>>

searchVars == <<sAdapter, sImdb, sResp, sOut, sRaised, sDone>>

-----------------------------------------------------------------------------
(* Bounds of the model *)

\* longest run of one repeated element at the head of a document
MaxLead == 9
\* number of freely chosen elements after the run
MaxTail == 2
\* longest document an adapter gets inside a whole request
MaxSmallDoc == 2

-----------------------------------------------------------------------------
(* Python values and string operations *)

\* Optional[int]: None is the empty sequence, a value v is <<v>>
None == <<>>

Some(v) == <<v>>

Letters ==
    {"a", "b", "c", "d", "e", "f", "g", "h", "i", "j", "k", "l", "m",
     "n", "o", "p", "q", "r", "s", "t", "u", "v", "w", "x", "y", "z"}

DigitChars == <<"0", "1", "2", "3", "4", "5", "6", "7", "8", "9">>

IsDigit(c) == \E d \in 1..10 : DigitChars[d] = c

DigitValue(c) == (CHOOSE d \in 1..10 : DigitChars[d] = c) - 1

\* str.startswith
StartsWith(s, prefix) ==
    /\ Len(s) >= Len(prefix)
    /\ SubSeq(s, 1, Len(prefix)) = prefix

\* re.search of a literal pattern
Contains(s, pattern) ==
    \E k \in 0..(Len(s) - Len(pattern)) : SubSeq(s, k + 1, k + Len(pattern)) = pattern

\* str.find: 1-based position of the first c in s, 0 when there is none
Find(s, c) ==
    IF \E k \in 1..Len(s) : s[k] = c
    THEN CHOOSE k \in 1..Len(s) : s[k] = c /\ \A j \in 1..(k - 1) : s[j] # c
    ELSE 0

\* str.split(sep): the pieces between the separators, empty pieces kept
RECURSIVE Split(_, _)
Split(s, sep) ==
    LET k == Find(s, sep)
    IN  IF k = 0 THEN <<s>>
        ELSE <<SubSeq(s, 1, k - 1)>> \o Split(SubSeq(s, k + 1, Len(s)), sep)

\* str.strip() over the characters of the model (the only whitespace is " ")
RECURSIVE Strip(_)
Strip(s) ==
    IF s = <<>> THEN s
    ELSE IF Head(s) = " " THEN Strip(Tail(s))
    ELSE IF s[Len(s)] = " " THEN Strip(SubSeq(s, 1, Len(s) - 1))
    ELSE s

\* str(n) for n >= 0, as the f-strings format idx
RECURSIVE Str(_)
Str(n) ==
    IF n < 10 THEN <<DigitChars[n + 1]>>
    ELSE Str(n \div 10) \o <<DigitChars[(n % 10) + 1]>>

RECURSIVE DigitsValue(_)
DigitsValue(s) ==
    IF s = <<>> THEN 0
    ELSE 10 * DigitsValue(SubSeq(s, 1, Len(s) - 1)) + DigitValue(s[Len(s)])

\* int(s): an optional sign and at least one digit, anything else raises
\* ValueError (whitespace and '_' are not characters of the model)
IntParse(s) ==
    LET signed == s # <<>> /\ Head(s) \in {"-", "+"}
        digits == IF signed THEN Tail(s) ELSE s
        ok     == digits # <<>> /\ \A k \in 1..Len(digits) : IsDigit(digits[k])
    IN  IF ~ok THEN [raised |-> TRUE, value |-> 0]
        ELSE [raised |-> FALSE,
              value  |-> IF signed /\ Head(s) = "-" THEN 0 - DigitsValue(digits)
                         ELSE DigitsValue(digits)]

\* urlsplit: the url carries a scheme when its first ':' follows a letter and
\* only scheme characters
HasScheme(url) ==
    LET k == Find(url, ":")
    IN  /\ k > 1
        /\ url[1] \in Letters
        /\ \A j \in 1..(k - 1) : url[j] \in Letters \/ IsDigit(url[j]) \/ url[j] \in {"+", "-", "."}

\* urlsplit: the authority after '//', up to the next '/', '?' or '#'
Netloc(rest) ==
    LET after == SubSeq(rest, 3, Len(rest))
        stops == {k \in 1..Len(after) : after[k] \in {"/", "?", "#"}}
        end   == IF stops = {} THEN Len(after)
                 ELSE (CHOOSE k \in stops : \A j \in stops : k <= j) - 1
    IN  SubSeq(after, 1, end)

\* urljoin(base, url) for a base with an empty path and a url that does not
\* start with "http" (links have no '.' segments in the model)
UrlJoin(base, url) ==
    LET scheme == HasScheme(url)
        rest   == IF scheme THEN SubSeq(url, Find(url, ":") + 1, Len(url)) ELSE url
        hasNet == StartsWith(rest, <<"/", "/">>)
        net    == IF hasNet THEN Netloc(rest) ELSE <<>>
        open   == \E k \in 1..Len(net) : net[k] = "["
        close  == \E k \in 1..Len(net) : net[k] = "]"
    IN  IF open # close THEN [raised |-> TRUE, url |-> <<>>]
        ELSE IF scheme THEN [raised |-> FALSE, url |-> url]
        ELSE IF hasNet THEN [raised |-> FALSE, url |-> SubSeq(base, 1, Find(base, ":")) \o url]
        ELSE IF Head(url) \in {"/", "?", "#"} THEN [raised |-> FALSE, url |-> base \o url]
        ELSE [raised |-> FALSE, url |-> base \o <<"/">> \o url]

-----------------------------------------------------------------------------
(* The three scrapers *)

scrapers == <<"SubtitrariRoScraper", "SubsRoScraper", "TitrariRoScraper">>

Adapters == {scrapers[k] : k \in 1..Len(scrapers)}

BaseSubtitrari ==
    <<"h", "t", "t", "p", "s", ":", "/", "/", "w", "w", "w", ".", "s", "u", "b", "t", "i", "t", "r", "a", "r", "i", ".", "r", "o">>

BaseSubs ==
    <<"h", "t", "t", "p", "s", ":", "/", "/", "w", "w", "w", ".", "s", "u", "b", "s", ".", "r", "o">>

BaseTitrari ==
    <<"h", "t", "t", "p", "s", ":", "/", "/", "w", "w", "w", ".", "t", "i", "t", "r", "a", "r", "i", ".", "r", "o">>

BASE_URL(a) ==
    CASE a = "SubtitrariRoScraper" -> BaseSubtitrari
      [] a = "SubsRoScraper"       -> BaseSubs
      [] a = "TitrariRoScraper"    -> BaseTitrari

\* the source tag that opens a record id
SourceTag(a) ==
    CASE a = "SubtitrariRoScraper" -> <<"s", "u", "b", "t", "i", "t", "r", "a", "r", "i">>
      [] a = "SubsRoScraper"       -> <<"s", "u", "b", "s", "r", "o">>
      [] a = "TitrariRoScraper"    -> <<"t", "i", "t", "r", "a", "r", "i">>

\* the bracketed label that opens a record title
TitleLabel(a) ==
    CASE a = "SubtitrariRoScraper" -> <<"[", "s", "u", "b", "t", "i", "t", "r", "a", "r", "i", ".", "r", "o", "]", " ">>
      [] a = "SubsRoScraper"       -> <<"[", "s", "u", "b", "s", ".", "r", "o", "]", " ">>
      [] a = "TitrariRoScraper"    -> <<"[", "t", "i", "t", "r", "a", "r", "i", ".", "r", "o", "]", " ">>

PrefixTT == <<"t", "t">>

PrefixHttp == <<"h", "t", "t", "p">>

ReSubtitrare == <<"s", "u", "b", "t", "i", "t", "r", "a", "r", "e">>

ReSubtitle == <<"s", "u", "b", "t", "i", "t", "l", "e">>

ReIdEq == <<"i", "d", "=">>

ReResult == <<"r", "e", "s", "u", "l", "t">>

ClsTitle == <<"t", "i", "t", "l", "e">>

\* results[:10]
Cap == 10

\* time.sleep(0.5), in tenths of a second
PauseTenths == 5

-----------------------------------------------------------------------------
(* Documents: elements, find_all and the selector strategies *)

Anchor(hasHref, href, text) ==
    [name |-> "a", classes |-> {}, hasHref |-> hasHref, href |-> href, text |-> text,
     hasChild |-> FALSE, childHasHref |-> FALSE, childHref |-> <<>>, childText |-> <<>>]

DivWith(classes, hasHref, href, text) ==
    [name |-> "div", classes |-> classes, hasHref |-> FALSE, href |-> <<>>, text |-> <<>>,
     hasChild |-> TRUE, childHasHref |-> hasHref, childHref |-> href, childText |-> text]

DivEmpty(classes) ==
    [name |-> "div", classes |-> classes, hasHref |-> FALSE, href |-> <<>>, text |-> <<>>,
     hasChild |-> FALSE, childHasHref |-> FALSE, childHref |-> <<>>, childText |-> <<>>]

\* result.find('a'): the nested anchor of a div (callers test hasChild first)
FindA(e) == Anchor(e.childHasHref, e.childHref, e.childText)

\* every anchor of the document, nested ones included, in document order
RECURSIVE AllAnchors(_)
AllAnchors(doc) ==
    IF doc = <<>> THEN <<>>
    ELSE LET e == Head(doc)
         IN  (IF e.name = "a" THEN <<e>>
              ELSE IF e.hasChild THEN <<FindA(e)>>
              ELSE <<>>) \o AllAnchors(Tail(doc))

\* soup.find_all('a', href=re.compile(p1|p2...))
FindAllAnchors(doc, patterns) ==
    LET Hit(e) == e.hasHref /\ \E p \in patterns : Contains(e.href, p)
    IN  SelectSeq(AllAnchors(doc), Hit)

\* soup.find_all('div', class_='title')
FindAllDivClass(doc, cls) ==
    LET Hit(e) == e.name = "div" /\ cls \in e.classes
    IN  SelectSeq(doc, Hit)

\* soup.find_all('div', class_=re.compile(p1|p2...))
FindAllDivMatching(doc, patterns) ==
    LET Hit(e) == e.name = "div" /\ \E c \in e.classes : \E p \in patterns : Contains(c, p)
    IN  SelectSeq(doc, Hit)

\* the left operand of the 'or' that computes results
Strategy1(a, doc) ==
    CASE a = "SubtitrariRoScraper" -> FindAllDivClass(doc, ClsTitle)
      [] a = "SubsRoScraper"       -> FindAllAnchors(doc, {ReSubtitrare, ReSubtitle})
      [] a = "TitrariRoScraper"    -> FindAllAnchors(doc, {ReSubtitrare, ReIdEq})

\* the right operand of the 'or' that computes results
Strategy2(a, doc) ==
    CASE a = "SubtitrariRoScraper" -> FindAllAnchors(doc, {ReSubtitrare})
      [] a = "SubsRoScraper"       -> FindAllDivMatching(doc, {ReSubtitle, ReResult})
      [] a = "TitrariRoScraper"    -> FindAllDivClass(doc, ClsTitle)

\* a mutation of Results: the two match sets are merged
Results_union(a, doc) == Strategy1(a, doc) \o Strategy2(a, doc)

\* results = find_all(...) or find_all(...): a non-empty list is truthy
Results(a, doc) ==
    IF Strategy1(a, doc) # <<>> THEN Strategy1(a, doc) ELSE Strategy2(a, doc)

\* a mutation of FirstN: no truncation
FirstN_all(s, n) == s

\* s[:n]
FirstN(s, n) == IF Len(s) <= n THEN s ELSE SubSeq(s, 1, n)

-----------------------------------------------------------------------------
(* search: one entry, the loop, the whole method *)

\* a mutation of FormatId: the ordinal is left out
FormatId_noidx(a, idx, imdb) ==
    SourceTag(a) \o <<"_">> \o imdb

\* f"subtitrari_{idx}_{imdb_id}" and its two siblings
FormatId(a, idx, imdb) ==
    SourceTag(a) \o <<"_">> \o Str(idx) \o <<"_">> \o imdb

\* if not link.startswith('http'): link = urljoin(self.BASE_URL, link)
MakeAbsolute(a, link) ==
    IF StartsWith(link, PrefixHttp) THEN [raised |-> FALSE, url |-> link]
    ELSE UrlJoin(BASE_URL(a), link)

Skipped == [skipped |-> TRUE, record |-> <<>>]

\* the body of the for loop, with its try/except: a record, or the entry is skipped
ProcessEntry(a, imdb, idx, result) ==
    LET found    == result.name = "a" \/ result.hasChild
        link_tag == IF result.name = "a" THEN result ELSE FindA(result)
        link     == IF link_tag.hasHref THEN link_tag.href ELSE <<>>
        title    == Strip(link_tag.text)
        abs      == MakeAbsolute(a, link)
    IN  IF ~found THEN Skipped
        ELSE IF link = <<>> \/ title = <<>> THEN Skipped
        ELSE IF abs.raised THEN Skipped
        ELSE [skipped |-> FALSE,
              record  |-> [id    |-> FormatId(a, idx, imdb),
                           url   |-> abs.url,
                           lang  |-> "rum",
                           title |-> TitleLabel(a) \o title]]

\* a mutation of SearchLoop: the first skipped entry ends the loop
RECURSIVE SearchLoop_break(_, _, _, _)
SearchLoop_break(a, imdb, results, idx) ==
    IF idx >= Len(results) THEN <<>>
    ELSE LET entry == ProcessEntry(a, imdb, idx, results[idx + 1])
         IN  IF entry.skipped THEN <<>>
             ELSE <<entry.record>> \o SearchLoop_break(a, imdb, results, idx + 1)

\* for idx, result in enumerate(results[:10]), from idx on
RECURSIVE SearchLoop(_, _, _, _)
SearchLoop(a, imdb, results, idx) ==
    IF idx >= Len(results) THEN <<>>
    ELSE LET entry == ProcessEntry(a, imdb, idx, results[idx + 1])
         IN  (IF entry.skipped THEN <<>> ELSE <<entry.record>>)
             \o SearchLoop(a, imdb, results, idx + 1)

\* the body of the outer try: what it returns, or that it raised
SearchTry(a, imdb, resp) ==
    IF resp.error THEN [raised |-> TRUE, subs |-> <<>>]
    ELSE IF resp.status # 200 THEN [raised |-> FALSE, subs |-> <<>>]
    ELSE IF ~resp.parseable THEN [raised |-> TRUE, subs |-> <<>>]
    ELSE [raised |-> FALSE,
          subs   |-> SearchLoop(a, imdb, FirstN(Results(a, resp.doc), Cap), 0)]

\* a mutation of Search: the outer except is missing
Search_reraise(a, imdb, resp) == SearchTry(a, imdb, resp)

\* search(): the outer except logs and falls through to 'return subtitles'
Search(a, imdb, resp) ==
    LET t == SearchTry(a, imdb, resp)
    IN  IF t.raised THEN [raised |-> FALSE, subs |-> t.subs] ELSE t

-----------------------------------------------------------------------------
(* get_subtitles: parsing the id, the scraper loop, the response *)

\* a mutation of ParseId: an empty component is read as None instead of raising
ParseId_lenient(id) ==
    LET parts == Split(id, ":")
        s     == IF Len(parts) > 1 /\ parts[2] # <<>> THEN IntParse(parts[2])
                 ELSE [raised |-> FALSE, value |-> 0]
        e     == IF Len(parts) > 2 /\ parts[3] # <<>> THEN IntParse(parts[3])
                 ELSE [raised |-> FALSE, value |-> 0]
    IN  [raised  |-> s.raised \/ e.raised,
         imdb_id |-> parts[1],
         season  |-> IF Len(parts) > 1 /\ parts[2] # <<>> /\ ~s.raised THEN Some(s.value) ELSE None,
         episode |-> IF Len(parts) > 2 /\ parts[3] # <<>> /\ ~s.raised /\ ~e.raised
                     THEN Some(e.value) ELSE None]

\* parts = id.split(':') and the three assignments that follow; int() may raise
ParseId(id) ==
    LET parts == Split(id, ":")
        s     == IF Len(parts) > 1 THEN IntParse(parts[2]) ELSE [raised |-> FALSE, value |-> 0]
        e     == IF Len(parts) > 2 THEN IntParse(parts[3]) ELSE [raised |-> FALSE, value |-> 0]
    IN  [raised  |-> s.raised \/ e.raised,
         imdb_id |-> parts[1],
         season  |-> IF Len(parts) > 1 /\ ~s.raised THEN Some(s.value) ELSE None,
         episode |-> IF Len(parts) > 2 /\ ~s.raised /\ ~e.raised THEN Some(e.value) ELSE None]

\* imdb_id.startswith('tt')
ValidImdb(imdb) == StartsWith(imdb, PrefixTT)

\* a mutation of Extend: a record whose url is already listed is not added
RECURSIVE Extend_dedup(_, _)
Extend_dedup(all, subs) ==
    IF subs = <<>> THEN all
    ELSE IF \E k \in 1..Len(all) : all[k].url = Head(subs).url
         THEN Extend_dedup(all, Tail(subs))
         ELSE Extend_dedup(Append(all, Head(subs)), Tail(subs))

\* all_subtitles.extend(subs)
Extend(all, subs) == all \o subs

\* a mutation of NextStep: the pause is taken only after a call that found something
NextStep_onlyOnResults(out) ==
    IF out.raised \/ out.subs = <<>> THEN "loop" ELSE "sleep"

\* where the loop body goes after scraper.search: on to time.sleep, or, when the
\* call raised, through the except branch to the next scraper
NextStep(out) == IF out.raised THEN "loop" ELSE "sleep"

-----------------------------------------------------------------------------
(* Inputs *)

SeqsUpTo(S, n) == UNION {[1..k -> S] : k \in 0..n}

Rep(e, n) == [k \in 1..n |-> e]

ClsBoth == {ClsTitle, ReResult}

ElemARel ==
    Anchor(TRUE, <<"/", "s", "u", "b", "t", "i", "t", "r", "a", "r", "e", "/", "1">>, <<"x">>)

ElemAAbs ==
    Anchor(TRUE, <<"h", "t", "t", "p", ":", "/", "/", "h", "/", "s", "u", "b", "t", "i", "t", "r", "a", "r", "e">>,
           <<" ", "y", " ">>)

ElemABlank ==
    Anchor(TRUE, <<"/", "s", "u", "b", "t", "i", "t", "r", "a", "r", "e", "/", "2">>, <<" ">>)

ElemAHttpish ==
    Anchor(TRUE, <<"h", "t", "t", "p", "x", "/", "s", "u", "b", "t", "i", "t", "r", "a", "r", "e">>, <<"z">>)

ElemABadJoin ==
    Anchor(TRUE, <<"/", "/", "[", "s", "u", "b", "t", "i", "t", "r", "a", "r", "e">>, <<"w">>)

ElemDivOk == DivWith(ClsBoth, TRUE, <<"/", "d", "l", "/", "3">>, <<"u">>)

\* its nested anchor matches the href patterns of subs.ro and titrari.ro only
ElemDivNested ==
    DivWith(ClsBoth, TRUE, <<"s", "u", "b", "t", "i", "t", "l", "e", "?", "i", "d", "=", "4">>, <<"t">>)

ElemDivNoAnchor == DivEmpty(ClsBoth)

ElemDivNoHref == DivWith(ClsBoth, FALSE, <<>>, <<"v">>)

ElemDivEmptyHref == DivWith(ClsBoth, TRUE, <<>>, <<"r">>)

Elems ==
    {ElemARel, ElemAAbs, ElemABlank, ElemAHttpish, ElemABadJoin,
     ElemDivOk, ElemDivNested, ElemDivNoAnchor, ElemDivNoHref, ElemDivEmptyHref}

LeadElems == {ElemARel, ElemDivOk, ElemABlank, ElemDivNoAnchor}

\* documents of SpecSearch: a run of one element, then a few free elements
Docs ==
    {Rep(e, n) \o tail : e \in LeadElems, n \in 0..MaxLead, tail \in SeqsUpTo(Elems, MaxTail)}

\* documents of Spec
SmallElems == {ElemARel, ElemDivOk, ElemDivNoAnchor}

SmallDocs == SeqsUpTo(SmallElems, MaxSmallDoc)

NetError == [error |-> TRUE, status |-> 0, parseable |-> FALSE, doc |-> <<>>]

HttpError(code) == [error |-> FALSE, status |-> code, parseable |-> TRUE, doc |-> <<>>]

ParseError == [error |-> FALSE, status |-> 200, parseable |-> FALSE, doc |-> <<>>]

Ok(doc) == [error |-> FALSE, status |-> 200, parseable |-> TRUE, doc |-> doc]

Failures == {NetError, HttpError(404), HttpError(500), ParseError}

FetchKind(resp) ==
    IF resp.error THEN "neterr"
    ELSE IF resp.status # 200 THEN "http"
    ELSE IF ~resp.parseable THEN "parseerr"
    ELSE "ok"

ImdbTT1 == <<"t", "t", "1">>

Leads == {ImdbTT1, <<"x", "x", "1">>, <<"t">>, <<>>}

PartSamples == {<<>>, <<"1">>, <<"5">>, <<"a">>}

RECURSIVE JoinParts(_, _)
JoinParts(lead, ps) ==
    IF ps = <<>> THEN lead ELSE JoinParts(lead \o <<":">> \o Head(ps), Tail(ps))

\* the components after the imdb id: none, a season, a season and an episode,
\* and one id with a component too many
PartLists ==
    {<<>>} \cup {<<s>> : s \in PartSamples}
           \cup {<<s, e>> : s \in PartSamples, e \in PartSamples}
           \cup {<<s, e, <<"1">>>> : s \in {<<"1">>}, e \in {<<"5">>, <<"a">>}}

ReqIds == {JoinParts(lead, ps) : lead \in Leads, ps \in PartLists}

-----------------------------------------------------------------------------
(* Spec: one request through get_subtitles *)

SearchIdle ==
    /\ sAdapter = scrapers[1]
    /\ sImdb = <<>>
    /\ sResp = NetError
    /\ sOut = <<>>
    /\ sRaised = FALSE
    /\ sDone = FALSE

RequestIdle ==
    /\ pc = "idle"
    /\ reqId = <<>>
    /\ imdb_id = <<>>
    /\ season = None
    /\ episode = None
    /\ status = 0
    /\ scraperIdx = 1
    /\ all_subtitles = <<>>
    /\ body = <<>>
    /\ calls = <<>>
    /\ clock = 0
    /\ fetched = [k \in 1..Len(scrapers) |-> "none"]
    /\ returned = [k \in 1..Len(scrapers) |-> <<>>]
    /\ raised = [k \in 1..Len(scrapers) |-> FALSE]

Init == RequestIdle /\ SearchIdle

\* the handler up to the scraper loop: parse the id, validate the imdb id.
\* An int() that raises leaves the handler by an unhandled ValueError, which the
\* framework answers with 500.  The {type} path parameter is only passed on to
\* search, which never reads it, nor season and episode.
Request ==
    /\ pc = "idle"
    /\ \E id \in ReqIds :
         LET p == ParseId(id)
         IN  /\ reqId' = id
             /\ imdb_id' = p.imdb_id
             /\ season' = p.season
             /\ episode' = p.episode
             /\ IF p.raised
                THEN status' = 500 /\ pc' = "done"
                ELSE IF ~ValidImdb(p.imdb_id)
                THEN status' = 400 /\ pc' = "done"
                ELSE status' = 0 /\ pc' = "loop"
    /\ scraperIdx' = 1
    /\ all_subtitles' = <<>>
    /\ UNCHANGED <<body, calls, clock, fetched, returned, raised>>
    /\ UNCHANGED searchVars

\* one iteration of the for loop up to the pause: search, then extend
CallAdapter ==
    /\ pc = "loop"
    /\ scraperIdx <= Len(scrapers)
    /\ \E resp \in Failures \cup {Ok(d) : d \in SmallDocs} :
         LET out == Search(scrapers[scraperIdx], imdb_id, resp)
         IN  /\ fetched' = [fetched EXCEPT ![scraperIdx] = FetchKind(resp)]
             /\ raised' = [raised EXCEPT ![scraperIdx] = out.raised]
             /\ returned' = [returned EXCEPT ![scraperIdx] = IF out.raised THEN <<>> ELSE out.subs]
             /\ all_subtitles' = IF out.raised THEN all_subtitles
                                 ELSE Extend(all_subtitles, out.subs)
             /\ pc' = NextStep(out)
             /\ scraperIdx' = IF NextStep(out) = "sleep" THEN scraperIdx ELSE scraperIdx + 1
    /\ calls' = Append(calls, [op |-> "search", who |-> scrapers[scraperIdx]])
    /\ UNCHANGED <<reqId, imdb_id, season, episode, status, body, clock>>
    /\ UNCHANGED searchVars

\* time.sleep(0.5), then the loop moves to the next scraper
Sleep ==
    /\ pc = "sleep"
    /\ clock' = clock + PauseTenths
    /\ calls' = Append(calls, [op |-> "sleep", who |-> scrapers[scraperIdx]])
    /\ scraperIdx' = scraperIdx + 1
    /\ pc' = "loop"
    /\ UNCHANGED <<reqId, imdb_id, season, episode, status, all_subtitles, body,
                   fetched, returned, raised>>
    /\ UNCHANGED searchVars

\* the loop is over: return JSONResponse(content={"subtitles": all_subtitles})
Respond ==
    /\ pc = "loop"
    /\ scraperIdx > Len(scrapers)
    /\ body' = all_subtitles
    /\ status' = 200
    /\ pc' = "done"
    /\ UNCHANGED <<reqId, imdb_id, season, episode, scraperIdx, all_subtitles, calls,
                   clock, fetched, returned, raised>>
    /\ UNCHANGED searchVars

Next == Request \/ CallAdapter \/ Sleep \/ Respond

Spec == Init /\ [][Next]_vars

-----------------------------------------------------------------------------
(* SpecSearch: one call of one scraper's search on a drawn response *)

SearchInit ==
    /\ RequestIdle
    /\ sAdapter \in Adapters
    /\ sImdb = ImdbTT1
    /\ sResp \in Failures \cup {Ok(d) : d \in Docs}
    /\ sOut = <<>>
    /\ sRaised = FALSE
    /\ sDone = FALSE

RunSearch ==
    /\ ~sDone
    /\ LET out == Search(sAdapter, sImdb, sResp)
       IN  /\ sOut' = out.subs
           /\ sRaised' = out.raised
    /\ sDone' = TRUE
    /\ UNCHANGED <<sAdapter, sImdb, sResp>>
    /\ UNCHANGED reqVars

SearchNext == RunSearch

SpecSearch == SearchInit /\ [][SearchNext]_vars

-----------------------------------------------------------------------------
(* Vocabulary of the properties *)

Failed(k) == fetched[k] \in {"neterr", "http", "parseerr"}

Answered == pc = "done" /\ status = 200

\* the records of a response that carry the title label of scraper k
FromSource(list, k) ==
    LET Mine(r) == StartsWith(r.title, TitleLabel(scrapers[k]))
    IN  SelectSeq(list, Mine)

SourceIndex(r) == CHOOSE k \in 1..Len(scrapers) : StartsWith(r.title, TitleLabel(scrapers[k]))

SearchCalls ==
    LET IsSearch(c) == c.op = "search"
    IN  SelectSeq(calls, IsSearch)

\* a raw match that the spec calls malformed: a container without a nested
\* anchor, a missing or empty href, or a title that is empty once trimmed
Malformed(e) ==
    \/ e.name = "div" /\ ~e.hasChild
    \/ e.name = "div" /\ (~e.childHasHref \/ e.childHref = <<>> \/ Strip(e.childText) = <<>>)
    \/ e.name = "a" /\ (~e.hasHref \/ e.href = <<>> \/ Strip(e.text) = <<>>)

EntryHref(e) == IF e.name = "a" THEN e.href ELSE e.childHref

EntryText(e) == IF e.name = "a" THEN e.text ELSE e.childText

\* a well-formed raw match whose link cannot be resolved (urljoin raises)
Unjoinable(a, e) == ~Malformed(e) /\ MakeAbsolute(a, EntryHref(e)).raised

SearchedOk == sDone /\ FetchKind(sResp) = "ok"

RawMatches == Results(sAdapter, sResp.doc)

\* the k-th smallest member of a set of positions
Nth(S, k) == CHOOSE p \in S : Cardinality({q \in S : q < p}) = k - 1

\* out holds, in order, the record of every position of 'good', built from matches
BuiltFrom(out, matches, good) ==
    /\ Len(out) = Cardinality(good)
    /\ \A k \in 1..Len(out) :
         LET p == Nth(good, k)
         IN  /\ out[k].title = TitleLabel(sAdapter) \o Strip(EntryText(matches[p]))
             /\ out[k].id = FormatId(sAdapter, p - 1, sImdb)

-----------------------------------------------------------------------------
(* C1 *)

\* C1: a request whose leading id component does not start with 'tt' ends with
\* HTTP 400, whatever the other components hold, and no adapter was called.
C1_InvalidIdIs400 ==
    (pc = "done" /\ ~StartsWith(Head(Split(reqId, ":")), PrefixTT))
        => (status = 400 /\ calls = <<>>)

-----------------------------------------------------------------------------
(* C2 *)

\* C2: an adapter whose fetch failed (network exception, non-200 status, parse
\* exception) returned an empty list and did not raise; all three adapters are
\* still called, the request is answered with 200, and the response holds
\* exactly the records the other adapters returned.
C2_FailureContained ==
    \A k \in 1..Len(scrapers) :
        Failed(k) =>
            /\ ~raised[k]
            /\ returned[k] = <<>>
            /\ pc = "done" =>
                 /\ status = 200
                 /\ \A j \in 1..Len(scrapers) : fetched[j] # "none"
                 /\ FromSource(body, k) = <<>>
                 /\ \A j \in 1..Len(scrapers) : j # k => FromSource(body, j) = returned[j]
                 /\ Len(body) = Len(returned[1]) + Len(returned[2]) + Len(returned[3])

C2_Witness ==
    /\ Answered
    /\ fetched = <<"http", "ok", "neterr">>
    /\ Len(returned[2]) = 2
    /\ Len(body) = 2

-----------------------------------------------------------------------------
(* C3 *)

\* C3 as stated: whatever the number of raw matches, search returns every
\* valid match and drops only the malformed ones, in document order.  (An
\* entry whose processing raises, here by urljoin, counts as malformed.)
C3_EveryValidEntryReturned ==
    SearchedOk =>
        LET R == RawMatches
        IN  BuiltFrom(sOut, R,
                      {p \in 1..Len(R) : ~Malformed(R[p]) /\ ~Unjoinable(sAdapter, R[p])})

\* C3 amended: among the first 10 raw matches, search returns every valid match
\* and drops only the malformed ones (an entry on whose link urljoin raises
\* included), in document order; matches after the tenth are never returned.
C3_ValidAmongFirstTen ==
    SearchedOk =>
        LET R == RawMatches
        IN  BuiltFrom(sOut, R,
                      {p \in 1..Len(R) :
                          p <= 10 /\ ~Malformed(R[p]) /\ ~Unjoinable(sAdapter, R[p])})

C3_Witness ==
    /\ SearchedOk
    /\ Len(RawMatches) > 10
    /\ \E p \in 1..10 : Malformed(RawMatches[p])
    /\ \E p \in 1..10 : p > 1 /\ ~Malformed(RawMatches[p]) /\ Malformed(RawMatches[p - 1])
    /\ ~Malformed(RawMatches[11])
    /\ Len(sOut) >= 1

-----------------------------------------------------------------------------
(* C4 *)

\* C4: for each adapter and every document, search returns at most 10 records.
C4_AtMostTen == sDone => Len(sOut) <= 10

C4_Witness ==
    /\ SearchedOk
    /\ sAdapter = "SubsRoScraper"
    /\ Len(RawMatches) > 10
    /\ Len(sOut) = 10

-----------------------------------------------------------------------------
(* C5 *)

\* C5: no two records collected for one response have the same id, across the
\* three adapters and also when entries of an adapter were skipped.
C5_UniqueIds ==
    /\ \A i, j \in 1..Len(all_subtitles) :
         i # j => all_subtitles[i].id # all_subtitles[j].id
    /\ \A i, j \in 1..Len(body) : i # j => body[i].id # body[j].id

C5_Witness ==
    /\ Answered
    /\ \A k \in 1..Len(scrapers) : returned[k] # <<>>
    /\ Len(returned[2]) = 2
    /\ \E k \in 1..Len(scrapers) :
         /\ Len(returned[k]) = 1
         /\ returned[k][1].id = FormatId(scrapers[k], 1, imdb_id)

-----------------------------------------------------------------------------
(* C6 *)

\* C6: every record an adapter returns has an absolute url: a relative link,
\* whatever it begins with, was resolved against the adapter's base URL.
C6_AbsoluteUrls ==
    sDone => \A k \in 1..Len(sOut) : HasScheme(sOut[k].url)

-----------------------------------------------------------------------------
(* C7 *)

\* C7: every adapter call is followed by the 0.5 pause before the next adapter
\* is called or the response is returned, the last call included, whether the
\* call returned records, returned nothing or failed.
C7_PauseAfterEachCall ==
    /\ \A p \in 1..Len(calls) :
         calls[p].op = "search" =>
             IF p < Len(calls)
             THEN calls[p + 1] = [op |-> "sleep", who |-> calls[p].who]
             ELSE pc = "sleep"
    /\ pc # "sleep" => clock = 5 * Len(SearchCalls)
    /\ pc = "sleep" => clock = 5 * (Len(SearchCalls) - 1)
    /\ Answered => clock = 15

C7_Witness ==
    /\ Answered
    /\ Failed(1)
    /\ fetched[2] = "ok" /\ returned[2] = <<>>
    /\ returned[3] # <<>>
    /\ Len(calls) = 6

-----------------------------------------------------------------------------
(* C8 *)

\* C8: the adapters are called in the order subtitrari.ro, subs.ro, titrari.ro
\* and the response is the concatenation of what they returned, in that order:
\* grouped by adapter, per-adapter order kept, nothing removed or reordered.
C8_ConcatInOrder ==
    /\ \A p \in 1..Len(SearchCalls) : SearchCalls[p].who = scrapers[p]
    /\ Answered =>
         /\ Len(SearchCalls) = 3
         /\ <<SearchCalls[1].who, SearchCalls[2].who, SearchCalls[3].who>>
              = <<"SubtitrariRoScraper", "SubsRoScraper", "TitrariRoScraper">>
         /\ body = returned[1] \o returned[2] \o returned[3]
         /\ \A i, j \in 1..Len(body) : i < j => SourceIndex(body[i]) <= SourceIndex(body[j])
         /\ (\A k \in 1..3 : Len(returned[k]) = 2) => Len(body) = 6

C8_Witness ==
    /\ Answered
    /\ \A k \in 1..3 : Len(returned[k]) = 2
    /\ Len(body) = 6
    /\ body[1].url = body[2].url

-----------------------------------------------------------------------------
(* C9 *)

IdOf(lead, ps) == JoinParts(lead, ps)

-----------------------------------------------------------------------------
(* C10 *)

\* C10: the first selector strategy with a non-empty match set is the only one
\* used: every record comes from a match of that strategy, the second
\* strategy serves only when the first matches nothing, and nothing of the
\* second is returned when every match of the first is dropped as malformed.
C10_FirstStrategyWins ==
    SearchedOk =>
        LET s1   == Strategy1(sAdapter, sResp.doc)
            s2   == Strategy2(sAdapter, sResp.doc)
            used == IF s1 # <<>> THEN s1 ELSE s2
        IN  /\ Len(sOut) <= Len(used)
            /\ \A k \in 1..Len(sOut) :
                 \E p \in 1..Len(used) :
                    /\ ~Malformed(used[p])
                    /\ sOut[k].id = FormatId(sAdapter, p - 1, sImdb)
                    /\ sOut[k].title = TitleLabel(sAdapter) \o Strip(EntryText(used[p]))
            /\ (s1 # <<>> /\ \A p \in 1..Len(s1) : Malformed(s1[p])) => sOut = <<>>

C10_Witness ==
    /\ SearchedOk
    /\ sAdapter = "SubtitrariRoScraper"
    /\ Strategy1(sAdapter, sResp.doc) # <<>>
    /\ \A p \in 1..Len(Strategy1(sAdapter, sResp.doc)) : Malformed(Strategy1(sAdapter, sResp.doc)[p])
    /\ \E p \in 1..Len(Strategy2(sAdapter, sResp.doc)) : ~Malformed(Strategy2(sAdapter, sResp.doc)[p])
    /\ sOut = <<>>

====
